---- MODULE Spec2Model ----
(***************************************************************************)
(* SingleLinkedList<Type> (single-linked-list.h) as a state machine over   *)
(* an explicit heap.  A pointer is an integer: 0 is nullptr, 1..MaxNodes   *)
(* are heap cells that operator new can return, and a negative number is   *)
(* the address of a list object's embedded sentinel head_ (a list object   *)
(* is identified by that address, which is what before_begin() returns).   *)
(* assert() is active: the header never defines NDEBUG.                    *)
(***************************************************************************)
EXTENDS Integers, Sequences, FiniteSets, TLC

\* ---------------------------------------------------------------- bounds
MaxNodes == 3        \* heap cells available to operator new
NumLists == 2        \* list objects the client owns
MaxVal   == 2        \* element values are 1..MaxVal
MaxInit  == 2        \* longest initializer list the client writes

\* size_t arithmetic wraps modulo SizeMod (16 bits is the narrowest size_t
\* the language allows; nothing below depends on the exact width).
SizeMod == 2 ^ 16

NULL     == 0
Nodes    == 1 .. MaxNodes
Lists    == { -l : l \in 1 .. NumLists }
Temp1    == -(NumLists + 1)    \* `temp` local of operator=
Temp2    == -(NumLists + 2)    \* `temp` local of a constructor
Sentinels == Lists \cup {Temp1, Temp2}
Ptr      == Sentinels \cup {NULL} \cup Nodes
Values   == 1 .. MaxVal
NoValue  == 0                  \* contents of a cell that holds no element
\* an indeterminate size_t is one of these representatives: zero, or not
Indeterminate == {0, SizeMod - 1}
\* outcome of a null dereference that is not a pointer value: the read traps
Trap     == MaxNodes + 1

VARIABLES
    next,         \* next_node of every sentinel and heap cell
    value,        \* value of every heap cell
    live,         \* heap cells currently allocated (new'ed, not yet deleted)
    size,         \* size_ of every list object
    constructed,  \* list objects whose lifetime has begun and not ended
    it,           \* an iterator the client holds (its node_)
    last,         \* the last call the client made, its arguments and result
    pre,          \* the memory before that call, kept for the calls whose
                  \* effect is told from it (see Remembered)
    fault         \* "none", or how the program stopped

vars == <<next, value, live, size, constructed, it, last, pre, fault>>

\* ------------------------------------------------------------ the memory
Mem == [next |-> next, value |-> value, live |-> live, size |-> size,
        constructed |-> constructed]

EmptyMem == [next |-> [p \in Sentinels \cup Nodes |-> NULL],
             value |-> [n \in Nodes |-> NoValue],
             live |-> {},
             size |-> [l \in Sentinels |-> 0],
             constructed |-> {}]

Free(m) == Nodes \ m.live

\* new Node(val, nxt) returning cell n
New(m, n, val, nxt) ==
    [m EXCEPT !.live = @ \cup {n}, !.value[n] = val, !.next[n] = nxt]

\* delete n; a deleted cell's contents are gone
Delete(m, n) ==
    IF n = NULL THEN m
    ELSE [m EXCEPT !.live = @ \ {n}, !.value[n] = NoValue, !.next[n] = NULL]

\* results of a call: normal return, or an exception, or the program stops
Return(m, r) == [mem |-> m, ret |-> r, exc |-> "none"]
Throw(m)     == [mem |-> m, ret |-> NULL, exc |-> "bad_alloc"]
Stop(m, how) == [mem |-> m, ret |-> NULL, exc |-> how]

\* ------------------------------------------------- observing a list
\* the cells met by following next_node from p until nullptr (at most
\* `fuel` of them, so that the walk is defined on any memory)
RECURSIVE Walk(_, _, _)
Walk(m, p, fuel) ==
    IF p = NULL \/ fuel = 0 THEN <<>>
    ELSE <<p>> \o Walk(m, m.next[p], fuel - 1)

\* begin() .. end(): the cells of list l in iteration order
Chain(m, l) == Walk(m, m.next[l], MaxNodes + 1)
Elems(m, l) == [i \in 1 .. Len(Chain(m, l)) |-> m.value[Chain(m, l)[i]]]
Range(s)    == { s[i] : i \in 1 .. Len(s) }

begin(m, l)        == m.next[l]
end(m, l)          == NULL
before_begin(m, l) == l
GetSize(m, l)      == m.size[l]
IsEmpty(m, l)      == m.size[l] = 0

\* ------------------------------------------------ SingleLinkedList<Type>
\* Every method is an operator from the memory before the call to a result
\* (Return / Throw / Stop).  `n` is what operator new gives the call: a free
\* cell, or NULL when it throws std::bad_alloc.  `u` is what a read through
\* a pointer that refers to no object yields: Trap, or any pointer value.

\* SingleLinkedList() : size_(0) {}      (head_.next_node = nullptr)
DefaultCtor(m, this) ==
    [m EXCEPT !.next[this] = NULL, !.size[this] = 0,
              !.constructed = @ \cup {this}]

\* swap that exchanges the counts and leaves the head links in place
swap_SizesOnly(m, this, other) ==
    LET t2 == m.size[this]
        m3 == [m  EXCEPT !.size[this] = m.size[other]]
        m4 == [m3 EXCEPT !.size[other] = t2]
    IN  m4

\* swap that assigns other's chain to this one instead of exchanging them
swap_OneWay(m, this, other) ==
    LET m1 == [m  EXCEPT !.next[this] = m.next[other]]
        t2 == m1.size[this]
        m3 == [m1 EXCEPT !.size[this] = m1.size[other]]
        m4 == [m3 EXCEPT !.size[other] = t2]
    IN  m4

\* swap that exchanges the chains and forgets the counts
swap_LinksOnly(m, this, other) ==
    LET t1 == m.next[this]
        m1 == [m  EXCEPT !.next[this] = m.next[other]]
        m2 == [m1 EXCEPT !.next[other] = t1]
    IN  m2

\* void swap(SingleLinkedList& other) noexcept
swap(m, this, other) ==
    LET t1 == m.next[this]
        m1 == [m  EXCEPT !.next[this] = m.next[other]]
        m2 == [m1 EXCEPT !.next[other] = t1]
        t2 == m2.size[this]
        m3 == [m2 EXCEPT !.size[this] = m2.size[other]]
        m4 == [m3 EXCEPT !.size[other] = t2]
    IN  m4

\* template swap(lhs, rhs) noexcept { lhs.swap(rhs); }
FreeSwap(m, lhs, rhs) == swap(m, lhs, rhs)

\* PushFront that forgets ++size_
PushFront_NoIncrement(m, this, val, n) ==
    IF n = NULL THEN Throw(m)
    ELSE LET m1 == New(m, n, val, m.next[this])
             m2 == [m1 EXCEPT !.next[this] = n]
         IN  Return(m2, NULL)

\* void PushFront(const Type& value)
PushFront(m, this, val, n) ==
    IF n = NULL THEN Throw(m)
    ELSE LET m1 == New(m, n, val, m.next[this])
             m2 == [m1 EXCEPT !.next[this] = n]
             m3 == [m2 EXCEPT !.size[this] = (@ + 1) % SizeMod]
         IN  Return(m3, NULL)

\* PopFront that forgets --size_
PopFront_NoDecrement(m, this, u) ==
    IF IsEmpty(m, this) THEN Return(m, NULL)
    ELSE IF m.next[this] = NULL
    THEN IF u = Trap THEN Stop(m, "segv")
         ELSE Stop([m EXCEPT !.next[this] = u], "ub")
    ELSE LET new_front == m.next[m.next[this]]
             m1 == Delete(m, m.next[this])
             m2 == [m1 EXCEPT !.next[this] = new_front]
         IN  Return(m2, NULL)

\* PopFront without the IsEmpty() test
PopFront_NoEmptyCheck(m, this, u) ==
    IF m.next[this] = NULL
    THEN IF u = Trap THEN Stop(m, "segv")
         ELSE Stop([m EXCEPT !.next[this] = u,
                             !.size[this] = (@ + SizeMod - 1) % SizeMod], "ub")
    ELSE LET new_front == m.next[m.next[this]]
             m1 == Delete(m, m.next[this])
             m2 == [m1 EXCEPT !.next[this] = new_front]
             m3 == [m2 EXCEPT !.size[this] = (@ + SizeMod - 1) % SizeMod]
         IN  Return(m3, NULL)

\* PopFront that relinks the head before it deletes head_.next_node
PopFront_DeletesNewFront(m, this, u) ==
    IF IsEmpty(m, this) THEN Return(m, NULL)
    ELSE IF m.next[this] = NULL
    THEN IF u = Trap THEN Stop(m, "segv")
         ELSE Stop([m EXCEPT !.next[this] = u,
                             !.size[this] = (@ + SizeMod - 1) % SizeMod], "ub")
    ELSE LET new_front == m.next[m.next[this]]
             m1 == [m EXCEPT !.next[this] = new_front]
             m2 == Delete(m1, m1.next[this])
             m3 == [m2 EXCEPT !.size[this] = (@ + SizeMod - 1) % SizeMod]
         IN  Return(m3, NULL)

\* void PopFront() noexcept
PopFront(m, this, u) ==
    IF IsEmpty(m, this) THEN Return(m, NULL)
    ELSE IF m.next[this] = NULL
    THEN \* head_.next_node->next_node through nullptr
         IF u = Trap THEN Stop(m, "segv")
         ELSE Stop([m EXCEPT !.next[this] = u,
                             !.size[this] = (@ + SizeMod - 1) % SizeMod], "ub")
    ELSE LET new_front == m.next[m.next[this]]
             m1 == Delete(m, m.next[this])
             m2 == [m1 EXCEPT !.next[this] = new_front]
             m3 == [m2 EXCEPT !.size[this] = (@ + SizeMod - 1) % SizeMod]
         IN  Return(m3, NULL)

\* InsertAfter that never links the new cell to pos's old successor
InsertAfter_DropsTail(m, this, pos, val, n) ==
    IF pos = NULL THEN Stop(m, "assert")
    ELSE IF n = NULL THEN Throw(m)
    ELSE LET m1 == New(m, n, val, NULL)
             m3 == [m1 EXCEPT !.next[pos] = n]
             m4 == [m3 EXCEPT !.size[this] = (@ + 1) % SizeMod]
         IN  Return(m4, m4.next[pos])

\* Iterator InsertAfter(ConstIterator pos, const Type& value)
InsertAfter(m, this, pos, val, n) ==
    IF pos = NULL THEN Stop(m, "assert")
    ELSE IF n = NULL THEN Throw(m)
    ELSE LET m1 == New(m, n, val, NULL)
             m2 == [m1 EXCEPT !.next[n] = m1.next[pos]]
             m3 == [m2 EXCEPT !.next[pos] = n]
             m4 == [m3 EXCEPT !.size[this] = (@ + 1) % SizeMod]
         IN  Return(m4, m4.next[pos])

\* EraseAfter that unlinks the cell and never deletes it
EraseAfter_Leaks(m, this, pos, u) ==
    IF pos = NULL THEN Stop(m, "assert")
    ELSE LET erase_node == m.next[pos] IN
         IF erase_node = NULL
         THEN IF u = Trap THEN Stop(m, "segv")
              ELSE Stop([m EXCEPT !.next[pos] = u,
                          !.size[this] = (@ + SizeMod - 1) % SizeMod], "ub")
         ELSE LET m1 == [m EXCEPT !.next[pos] = m.next[erase_node]]
                  m3 == [m1 EXCEPT !.size[this] = (@ + SizeMod - 1) % SizeMod]
              IN  Return(m3, m3.next[pos])

\* EraseAfter that forgets --size_
EraseAfter_NoDecrement(m, this, pos, u) ==
    IF pos = NULL THEN Stop(m, "assert")
    ELSE LET erase_node == m.next[pos] IN
         IF erase_node = NULL
         THEN IF u = Trap THEN Stop(m, "segv")
              ELSE Stop([m EXCEPT !.next[pos] = u], "ub")
         ELSE LET m1 == [m EXCEPT !.next[pos] = m.next[erase_node]]
                  m2 == Delete(m1, erase_node)
              IN  Return(m2, m2.next[pos])

\* Iterator EraseAfter(ConstIterator pos) noexcept
EraseAfter(m, this, pos, u) ==
    IF pos = NULL THEN Stop(m, "assert")
    ELSE LET erase_node == m.next[pos] IN
         IF erase_node = NULL
         THEN \* erase_node->next_node through nullptr: no assertion guards it
              IF u = Trap THEN Stop(m, "segv")
              ELSE Stop([m EXCEPT !.next[pos] = u,
                          !.size[this] = (@ + SizeMod - 1) % SizeMod], "ub")
         ELSE LET m1 == [m EXCEPT !.next[pos] = m.next[erase_node]]
                  m2 == Delete(m1, erase_node)
                  m3 == [m2 EXCEPT !.size[this] = (@ + SizeMod - 1) % SizeMod]
              IN  Return(m3, m3.next[pos])

\* void Clear() noexcept: the while loop, one cell per iteration
RECURSIVE ClearLoop(_, _, _)
ClearLoop(m, this, fuel) ==
    IF m.next[this] = NULL \/ fuel = 0 THEN m
    ELSE LET temp == m.next[this]
             m1 == [m EXCEPT !.next[this] = m.next[temp]]
             m2 == Delete(m1, temp)
             m3 == [m2 EXCEPT !.size[this] = (@ + SizeMod - 1) % SizeMod]
         IN  ClearLoop(m3, this, fuel - 1)

\* Clear with an `if` where the `while` is: it destroys the first cell only
Clear_OneCell(m, this) == ClearLoop(m, this, 1)

Clear(m, this) == ClearLoop(m, this, MaxNodes + 1)

\* a destructor that frees nothing
Dtor_NoClear(m, this) ==
    [m EXCEPT !.constructed = @ \ {this},
              !.next[this] = NULL, !.size[this] = 0]

\* ~SingleLinkedList() { Clear(); } and the end of the object's storage
Dtor(m, this) ==
    LET m1 == Clear(m, this)
    IN  [m1 EXCEPT !.constructed = @ \ {this},
                   !.next[this] = NULL, !.size[this] = 0]

\* what the i-th `new` of a call yields under allocation plan `plan`: the
\* plan lists the cells handed out; the allocation after the last one throws
AllocAt(plan, i) == IF i <= Len(plan) THEN plan[i] ELSE NULL

\* a constructor that has no size_ initializer starts from an indeterminate
\* size_ (g); head_ is default-initialized to a null link
RawObject(m, this, g) == [m EXCEPT !.next[this] = NULL, !.size[this] = g]

\* unwinding that leaves temp's cells allocated
Unwind_Leaks(m, this, temp) ==
    Throw([m EXCEPT !.next[this] = NULL, !.size[this] = 0,
                    !.next[temp] = NULL, !.size[temp] = 0,
                    !.constructed = @ \ {temp}])

\* a constructor left by an exception: its `temp` local is destroyed by
\* unwinding and the object under construction never comes to life
Unwind(m, this, temp) ==
    LET m1 == Dtor(m, temp)
    IN  Throw([m1 EXCEPT !.next[this] = NULL, !.size[this] = 0])

\* for (const auto& element : values) current = temp.InsertAfter(current, element);
RECURSIVE InitLoop(_, _, _, _, _, _)
InitLoop(m, temp, current, values, i, plan) ==
    IF i > Len(values) THEN Return(m, current)
    ELSE LET o == InsertAfter(m, temp, current, values[i], AllocAt(plan, i))
         IN  IF o.exc # "none" THEN o
             ELSE InitLoop(o.mem, temp, o.ret, values, i + 1, plan)

\* the body of SingleLinkedList(std::initializer_list<Type> values) down to
\* swap(temp): the memory in which temp's destructor then runs
InitListBody(m, this, values, plan, g) ==
    LET m0 == RawObject(m, this, g)
        m1 == DefaultCtor(m0, Temp2)
        o  == InitLoop(m1, Temp2, before_begin(m1, Temp2), values, 1, plan)
    IN  IF o.exc # "none" THEN o
        ELSE Return(swap(o.mem, this, Temp2), this)

Reverse(s) == [i \in 1 .. Len(s) |-> s[Len(s) + 1 - i]]

\* initializer-list constructor that builds the list back to front
InitListCtor_Reversed(m, this, values, plan, g) ==
    LET o == InitListBody(m, this, Reverse(values), plan, g)
    IN  IF o.exc # "none" THEN Unwind(o.mem, this, Temp2)
        ELSE LET m3 == Dtor(o.mem, Temp2)
             IN  Return([m3 EXCEPT !.constructed = @ \cup {this}], this)

\* SingleLinkedList(std::initializer_list<Type> values)
InitListCtor(m, this, values, plan, g) ==
    LET o == InitListBody(m, this, values, plan, g)
    IN  IF o.exc # "none" THEN Unwind(o.mem, this, Temp2)
        ELSE LET m3 == Dtor(o.mem, Temp2)
             IN  Return([m3 EXCEPT !.constructed = @ \cup {this}], this)

\* for (const auto& element : other) current = temp.InsertAfter(current, element);
\* `src` is the range-for's hidden iterator over other
RECURSIVE CopyLoop(_, _, _, _, _, _, _)
CopyLoop(m, temp, current, src, i, plan, fuel) ==
    IF src = NULL \/ fuel = 0 THEN Return(m, current)
    ELSE LET o == InsertAfter(m, temp, current, m.value[src], AllocAt(plan, i))
         IN  IF o.exc # "none" THEN o
             ELSE CopyLoop(o.mem, temp, o.ret, o.mem.next[src], i + 1, plan,
                           fuel - 1)

\* the body of SingleLinkedList(const SingleLinkedList& other) down to
\* swap(temp): the memory in which temp's destructor then runs
CopyBody(m, this, other, plan, g) ==
    LET m0 == RawObject(m, this, g)
        m1 == DefaultCtor(m0, Temp2)
        o  == CopyLoop(m1, Temp2, before_begin(m1, Temp2), begin(m1, other),
                       1, plan, MaxNodes + 1)
    IN  IF o.exc # "none" THEN o
        ELSE Return(swap(o.mem, this, Temp2), this)

\* copy constructor that copies the head link and the count, not the cells
CopyCtor_Shallow(m, this, other, plan, g) ==
    Return([m EXCEPT !.next[this] = m.next[other],
                     !.size[this] = m.size[other],
                     !.constructed = @ \cup {this}], this)

\* SingleLinkedList(const SingleLinkedList& other)
CopyCtor(m, this, other, plan, g) ==
    LET o == CopyBody(m, this, other, plan, g)
    IN  IF o.exc # "none" THEN Unwind(o.mem, this, Temp2)
        ELSE LET m3 == Dtor(o.mem, Temp2)
             IN  Return([m3 EXCEPT !.constructed = @ \cup {this}], this)

\* SingleLinkedList& operator=(const SingleLinkedList& rhs)
CopyAssign(m, this, rhs, plan, g) ==
    LET o == CopyCtor(m, Temp1, rhs, plan, g)      \* SingleLinkedList temp(rhs)
    IN  IF o.exc # "none" THEN o
        ELSE LET m1 == swap(o.mem, this, Temp1)
                 m2 == Dtor(m1, Temp1)
             IN  Return(m2, this)

\* ------------------------------------------------------- BasicIterator
\* an iterator operation yields the iterator's new node_, the value it
\* returns (an iterator or an element) and how it ended
ItResult(node, r, e) == [it |-> node, ret |-> r, exc |-> e]

\* node_ points at a sentinel or cell that exists
Refers(m, node) == node \in m.live \cup m.constructed

\* the outcome of a read through a node_ that refers to no object
WildRead(node, u) ==
    IF u = Trap THEN ItResult(node, NULL, "segv") ELSE ItResult(u, u, "ub")

\* BasicIterator& operator++() noexcept
PreIncrement(m, node, u) ==
    IF node = NULL THEN ItResult(node, NULL, "assert")
    ELSE IF ~Refers(m, node) THEN WildRead(node, u)
    ELSE ItResult(m.next[node], m.next[node], "none")

\* BasicIterator operator++(int) noexcept
PostIncrement(m, node, u) ==
    IF node = NULL THEN ItResult(node, NULL, "assert")
    ELSE IF ~Refers(m, node) THEN WildRead(node, u)
    ELSE LET old == node IN ItResult(m.next[node], old, "none")

\* reference operator*() const noexcept; a sentinel's value is never set
Deref(m, node, u) ==
    IF node = NULL THEN ItResult(node, NoValue, "assert")
    ELSE IF node \notin m.live
    THEN IF u = Trap THEN ItResult(node, NoValue, "segv")
         ELSE ItResult(node, u, "ub")
    ELSE ItResult(node, m.value[node], "none")

\* pointer operator->() const noexcept
Arrow(m, node, u) ==
    IF node = NULL THEN ItResult(node, NoValue, "assert")
    ELSE IF node \notin m.live
    THEN IF u = Trap THEN ItResult(node, NoValue, "segv")
         ELSE ItResult(node, u, "ub")
    ELSE ItResult(node, m.value[node], "none")

\* -------------------------------------------------- comparison operators
\* a comparison yields a truth value, unless it stops at an assertion
CmpResult(b, e) == [res |-> b, exc |-> e]
Negated(r)      == [r EXCEPT !.res = ~@]

\* std::equal(first1, last1, first2) over ConstIterators; operator* of a
\* null iterator fails its assertion
RECURSIVE equal(_, _, _, _, _)
equal(m, first1, last1, first2, fuel) ==
    IF first1 = last1 \/ fuel = 0 THEN CmpResult(TRUE, "none")
    ELSE IF first2 = NULL THEN CmpResult(FALSE, "assert")
    ELSE IF ~(m.value[first1] = m.value[first2]) THEN CmpResult(FALSE, "none")
    ELSE equal(m, m.next[first1], last1, m.next[first2], fuel - 1)

\* std::lexicographical_compare(first1, last1, first2, last2)
RECURSIVE lexicographical_compare(_, _, _, _, _, _)
lexicographical_compare(m, first1, last1, first2, last2, fuel) ==
    IF first1 = last1 \/ first2 = last2 \/ fuel = 0
    THEN CmpResult(first1 = last1 /\ first2 # last2, "none")
    ELSE IF m.value[first1] < m.value[first2] THEN CmpResult(TRUE, "none")
    ELSE IF m.value[first2] < m.value[first1] THEN CmpResult(FALSE, "none")
    ELSE lexicographical_compare(m, m.next[first1], last1, m.next[first2],
                                 last2, fuel - 1)

\* operator== that leaves out the GetSize() comparison
OperatorEq_NoSizeCheck(m, lhs, rhs) ==
    equal(m, begin(m, lhs), end(m, lhs), begin(m, rhs), MaxNodes + 1)

\* bool operator==(lhs, rhs): the && evaluates equal() only for equal sizes
OperatorEq(m, lhs, rhs) ==
    IF GetSize(m, lhs) = GetSize(m, rhs)
    THEN equal(m, begin(m, lhs), end(m, lhs), begin(m, rhs), MaxNodes + 1)
    ELSE CmpResult(FALSE, "none")

\* bool operator!=(lhs, rhs)
OperatorNe(m, lhs, rhs) == Negated(OperatorEq(m, lhs, rhs))

\* bool operator<(lhs, rhs)
OperatorLt(m, lhs, rhs) ==
    lexicographical_compare(m, begin(m, lhs), end(m, lhs),
                            begin(m, rhs), end(m, rhs), MaxNodes + 1)

\* operator<= that is only lhs < rhs
OperatorLe_StrictOnly(m, lhs, rhs) == OperatorLt(m, lhs, rhs)

\* bool operator<=(lhs, rhs): lhs < rhs || lhs == rhs
OperatorLe(m, lhs, rhs) ==
    IF OperatorLt(m, lhs, rhs).res THEN CmpResult(TRUE, "none")
    ELSE OperatorEq(m, lhs, rhs)

\* bool operator>(lhs, rhs)
OperatorGt(m, lhs, rhs) == OperatorLt(m, rhs, lhs)

\* bool operator>=(lhs, rhs)
OperatorGe(m, lhs, rhs) == Negated(OperatorLt(m, lhs, rhs))

CmpOps == {"operator==", "operator!=", "operator<", "operator<=",
           "operator>", "operator>="}

Compare(op, m, lhs, rhs) ==
    CASE op = "operator==" -> OperatorEq(m, lhs, rhs)
      [] op = "operator!=" -> OperatorNe(m, lhs, rhs)
      [] op = "operator<"  -> OperatorLt(m, lhs, rhs)
      [] op = "operator<=" -> OperatorLe(m, lhs, rhs)
      [] op = "operator>"  -> OperatorGt(m, lhs, rhs)
      [] OTHER             -> OperatorGe(m, lhs, rhs)

\* ----------------------------------------------------------- the client
Stops == {"assert", "segv", "ub"}
Remembered == {"InsertAfter", "PushFront", "swap", "FreeSwap", "PopFront",
               "Clear"}

\* the record of a call.  `chained` tells how the call follows the call
\* before it: "result" when its position is the iterator that call returned
\* (EraseAfter(InsertAfter(p, x))), "same" when it has that call's own
\* arguments (EraseAfter(p) after InsertAfter(p, x), PopFront after
\* PushFront, swap after the same swap), "no" otherwise.  `news` is the
\* number of cells operator new handed out during the call, `res` the
\* truth value a comparison returned, `values` the initializer list given
\* to a constructor, `tempsize` the size_ of a constructor's temp at the
\* moment its destructor ran.
Did(op, this, other, pos, val, ret, exc, chained) ==
    [op |-> op, this |-> this, other |-> other, pos |-> pos, val |-> val,
     ret |-> ret, exc |-> exc, chained |-> chained, news |-> 0,
     res |-> FALSE, values |-> <<>>, tempsize |-> 0]

\* size_ of the constructor's temp in the memory its body ends in
TempSize(o) == IF o.exc = "none" THEN GetSize(o.mem, Temp2) ELSE 0

\* positions a call on list l may name: its sentinel and its cells
Positions(m, l) == {l} \cup Range(Chain(m, l))

\* operator new hands out the lowest free cell (the code never compares or
\* orders addresses, so which free cell it gets makes no difference), or
\* throws; with no free cell left it can only throw
Lowest(S) == CHOOSE n \in S : \A k \in S : n <= k
RECURSIVE Ascending(_)
Ascending(S) ==
    IF S = {} THEN <<>> ELSE <<Lowest(S)>> \o Ascending(S \ {Lowest(S)})
NewOutcomes(m) ==
    IF Free(m) = {} THEN {NULL} ELSE {Lowest(Free(m)), NULL}
\* allocation plans for a call that allocates up to k cells: the first j
\* allocations succeed, and the one after them, if it is made, throws
Plans(m, k) ==
    { SubSeq(Ascending(Free(m)), 1, j) :
        j \in 0 .. (IF k < Cardinality(Free(m)) THEN k
                    ELSE Cardinality(Free(m))) }
InitLists == UNION { [1 .. k -> Values] : k \in 0 .. MaxInit }
\* what a read through a pointer can yield: one thing when the pointer
\* refers to an object (`defined`); otherwise the read traps, or it yields
\* some pointer value, null or not
Reads(defined) ==
    IF defined THEN {NULL} ELSE {Trap, NULL, Lowest(Nodes), Temp1}

Init ==
    /\ next = EmptyMem.next
    /\ value = EmptyMem.value
    /\ live = {}
    /\ size = EmptyMem.size
    /\ constructed = {}
    /\ it = NULL
    /\ last = Did("none", NULL, NULL, NULL, NoValue, NULL, "none", "no")
    /\ pre = EmptyMem
    /\ fault = "none"

\* the memory after a call, and the record of it
Apply(o, rec) ==
    /\ next' = o.mem.next
    /\ value' = o.mem.value
    /\ live' = o.mem.live
    /\ size' = o.mem.size
    /\ constructed' = o.mem.constructed
    /\ fault' = IF o.exc \in Stops THEN o.exc ELSE "none"
    /\ last' = rec
    /\ pre' = IF rec.op \in Remembered /\ o.exc = "none" THEN Mem ELSE EmptyMem
    /\ it' = it

ApplyIt(o, rec) ==
    /\ it' = o.it
    /\ fault' = IF o.exc \in Stops THEN o.exc ELSE "none"
    /\ last' = rec
    /\ pre' = EmptyMem
    /\ UNCHANGED <<next, value, live, size, constructed>>

DoDefaultCtor ==
    /\ fault = "none"
    /\ \E l \in Lists \ constructed :
         Apply(Return(DefaultCtor(Mem, l), l),
               Did("DefaultCtor", l, NULL, NULL, NoValue, l, "none", "no"))

DoInitListCtor ==
    /\ fault = "none"
    /\ \E l \in Lists \ constructed, values \in InitLists, g \in Indeterminate :
       \E plan \in Plans(Mem, Len(values)) :
         LET o == InitListCtor(Mem, l, values, plan, g)
         IN  Apply(o, [Did("InitListCtor", l, NULL, NULL, NoValue, o.ret,
                           o.exc, "no")
                       EXCEPT !.news = Len(plan), !.values = values,
                              !.tempsize = TempSize(
                                  InitListBody(Mem, l, values, plan, g))])

DoCopyCtor ==
    /\ fault = "none"
    /\ \E l \in Lists \ constructed, other \in constructed, g \in Indeterminate :
       \E plan \in Plans(Mem, Len(Chain(Mem, other))) :
         LET o == CopyCtor(Mem, l, other, plan, g)
         IN  Apply(o, [Did("CopyCtor", l, other, NULL, NoValue, o.ret,
                           o.exc, "no")
                       EXCEPT !.news = Len(plan),
                              !.tempsize = TempSize(
                                  CopyBody(Mem, l, other, plan, g))])

DoCopyAssign ==
    /\ fault = "none"
    /\ \E l \in constructed, rhs \in constructed, g \in Indeterminate :
       \E plan \in Plans(Mem, Len(Chain(Mem, rhs))) :
         LET o == CopyAssign(Mem, l, rhs, plan, g)
         IN  Apply(o, [Did("CopyAssign", l, rhs, NULL, NoValue, o.ret,
                           o.exc, "no")
                       EXCEPT !.news = Len(plan)])

DoDtor ==
    /\ fault = "none"
    /\ \E l \in constructed :
         Apply(Return(Dtor(Mem, l), NULL),
               Did("Dtor", l, NULL, NULL, NoValue, NULL, "none", "no"))

DoSwap ==
    /\ fault = "none"
    /\ \E a \in constructed, b \in constructed :
         Apply(Return(swap(Mem, a, b), NULL),
               Did("swap", a, b, NULL, NoValue, NULL, "none",
                   IF last.op \in {"swap", "FreeSwap"} /\ last.this = a
                        /\ last.other = b
                   THEN "same" ELSE "no"))

DoFreeSwap ==
    /\ fault = "none"
    /\ \E a \in constructed, b \in constructed :
         Apply(Return(FreeSwap(Mem, a, b), NULL),
               Did("FreeSwap", a, b, NULL, NoValue, NULL, "none",
                   IF last.op \in {"swap", "FreeSwap"} /\ last.this = a
                        /\ last.other = b
                   THEN "same" ELSE "no"))

DoPushFront ==
    /\ fault = "none"
    /\ \E l \in constructed, v \in Values, n \in NewOutcomes(Mem) :
         LET o == PushFront(Mem, l, v, n)
         IN  Apply(o, [Did("PushFront", l, NULL, NULL, v, o.ret, o.exc, "no")
                        EXCEPT !.news = IF n = NULL THEN 0 ELSE 1])

DoPopFront ==
    /\ fault = "none"
    /\ \E l \in constructed :
       \E u \in Reads(IsEmpty(Mem, l) \/ next[l] # NULL) :
         LET o == PopFront(Mem, l, u)
         IN  Apply(o, Did("PopFront", l, NULL, NULL, NoValue, o.ret, o.exc,
                          IF last.op = "PushFront" /\ last.this = l
                               /\ last.exc = "none"
                          THEN "same" ELSE "no"))

DoInsertAfter ==
    /\ fault = "none"
    /\ \E l \in constructed, v \in Values, n \in NewOutcomes(Mem) :
       \E pos \in Positions(Mem, l) \cup {NULL} :
         LET o == InsertAfter(Mem, l, pos, v, n)
         IN  Apply(o, [Did("InsertAfter", l, NULL, pos, v, o.ret, o.exc, "no")
                        EXCEPT !.news = IF o.exc = "none" THEN 1 ELSE 0])

DoEraseAfter ==
    /\ fault = "none"
    /\ \E l \in constructed :
       \E pos \in Positions(Mem, l) \cup {NULL} :
       \E u \in Reads(pos = NULL \/ next[pos] # NULL) :
         LET o == EraseAfter(Mem, l, pos, u)
         IN  Apply(o, Did("EraseAfter", l, NULL, pos, NoValue, o.ret, o.exc,
                          IF last.op = "InsertAfter" /\ last.this = l
                               /\ last.exc = "none"
                          THEN (IF pos = last.ret THEN "result"
                                ELSE IF pos = last.pos THEN "same" ELSE "no")
                          ELSE "no"))

DoClear ==
    /\ fault = "none"
    /\ \E l \in constructed :
         Apply(Return(Clear(Mem, l), NULL),
               Did("Clear", l, NULL, NULL, NoValue, NULL, "none", "no"))

\* it = l.begin(), l.end(), l.before_begin() (and their const twins)
DoGetIterator ==
    /\ fault = "none"
    /\ \E l \in constructed :
       \E f \in {"begin", "end", "before_begin"} :
         LET r == CASE f = "begin" -> begin(Mem, l)
                    [] f = "end" -> end(Mem, l)
                    [] OTHER -> before_begin(Mem, l)
         IN  ApplyIt(ItResult(r, r, "none"),
                     Did(f, l, NULL, NULL, NoValue, r, "none", "no"))

DoPreIncrement ==
    /\ fault = "none"
    /\ \E u \in Reads(it = NULL \/ Refers(Mem, it)) :
         LET o == PreIncrement(Mem, it, u)
         IN  ApplyIt(o, Did("operator++", NULL, NULL, it, NoValue, o.ret,
                            o.exc, "no"))

DoPostIncrement ==
    /\ fault = "none"
    /\ \E u \in Reads(it = NULL \/ Refers(Mem, it)) :
         LET o == PostIncrement(Mem, it, u)
         IN  ApplyIt(o, Did("operator++(int)", NULL, NULL, it, NoValue, o.ret,
                            o.exc, "no"))

DoDeref ==
    /\ fault = "none"
    /\ \E u \in Reads(it = NULL \/ it \in live) :
         LET o == Deref(Mem, it, u)
         IN  ApplyIt(o, Did("operator*", NULL, NULL, it, o.ret, NULL,
                            o.exc, "no"))

DoArrow ==
    /\ fault = "none"
    /\ \E u \in Reads(it = NULL \/ it \in live) :
         LET o == Arrow(Mem, it, u)
         IN  ApplyIt(o, Did("operator->", NULL, NULL, it, o.ret, NULL,
                            o.exc, "no"))

\* lhs == rhs, lhs != rhs, lhs < rhs, lhs <= rhs, lhs > rhs, lhs >= rhs
DoCompare ==
    /\ fault = "none"
    /\ \E lhs \in constructed, rhs \in constructed, op \in CmpOps :
         LET r == Compare(op, Mem, lhs, rhs)
         IN  /\ last' = [Did(op, lhs, rhs, NULL, NoValue, NULL, r.exc, "no")
                          EXCEPT !.res = r.res]
             /\ fault' = IF r.exc \in Stops THEN r.exc ELSE "none"
             /\ pre' = EmptyMem
             /\ UNCHANGED <<next, value, live, size, constructed, it>>

\* the container's own operations
Next ==
    \/ DoDefaultCtor \/ DoInitListCtor \/ DoCopyCtor \/ DoCopyAssign
    \/ DoDtor \/ DoSwap \/ DoFreeSwap
    \/ DoPushFront \/ DoPopFront \/ DoInsertAfter \/ DoEraseAfter \/ DoClear

Spec == Init /\ [][Next]_vars

\* a client that walks lists with an iterator while it changes them
NextIt ==
    \/ DoDefaultCtor \/ DoInitListCtor \/ DoDtor \/ DoSwap
    \/ DoPushFront \/ DoPopFront \/ DoEraseAfter
    \/ DoGetIterator \/ DoPreIncrement \/ DoPostIncrement
    \/ DoDeref \/ DoArrow

SpecIt == Init /\ [][NextIt]_vars

\* a client that builds lists and compares them
NextCmp ==
    \/ DoDefaultCtor \/ DoInitListCtor \/ DoDtor
    \/ DoPushFront \/ DoPopFront
    \/ DoCompare

SpecCmp == Init /\ [][NextCmp]_vars

\* ------------------------------------------------------------ typing
TypeOK ==
    /\ next \in [Sentinels \cup Nodes -> Ptr]
    /\ value \in [Nodes -> Values \cup {NoValue}]
    /\ live \subseteq Nodes
    /\ size \in [Sentinels -> 0 .. SizeMod - 1]
    /\ constructed \subseteq Lists
    /\ it \in Ptr
    /\ fault \in {"none"} \cup Stops

\* ------------------------------------------------------------ properties
\* position of pos in list l: 0 for the sentinel, i for the i-th cell
IndexOf(m, l, pos) ==
    IF pos = l THEN 0
    ELSE CHOOSE i \in 1 .. Len(Chain(m, l)) : Chain(m, l)[i] = pos

Insert(s, k, e) == SubSeq(s, 1, k) \o <<e>> \o SubSeq(s, k + 1, Len(s))
Remove(s, k)    == SubSeq(s, 1, k - 1) \o SubSeq(s, k + 1, Len(s))

\* list l is in memory m2 exactly as it is in memory m1
SameList(m1, m2, l) ==
    /\ Chain(m2, l) = Chain(m1, l)
    /\ Elems(m2, l) = Elems(m1, l)
    /\ m2.size[l] = m1.size[l]

\* the step just taken was a call of one of `ops` that returned normally
Returned(ops) == last'.op \in ops /\ last'.exc = "none"

\* C1: as long as no call has had undefined behaviour, GetSize() of every
\* list equals the number of cells met from begin() to end().
C1_SizeIsChainLength ==
    fault # "ub" =>
        \A l \in constructed : GetSize(Mem, l) = Len(Chain(Mem, l))

C1_Witness ==
    /\ last.op = "EraseAfter" /\ last.exc = "none"
    /\ \E l \in constructed : GetSize(Mem, l) = 2 /\ Len(Chain(Mem, l)) = 2
    /\ \E l \in constructed : GetSize(Mem, l) = 0

\* C2: InsertAfter(pos, value) with pos the sentinel or a cell of the list
\* puts value right after pos's position and nothing else changes: the
\* count grows by one, the other cells keep their places and values, the
\* returned iterator is the new cell, whose successor is pos's old one.
C2_InsertAfterSplices ==
    [][Returned({"InsertAfter"}) =>
        LET l == last'.this
            pos == last'.pos
            k == IndexOf(Mem, l, pos)
            new == last'.ret
        IN  /\ new \in Nodes \ live
            /\ live' = live \cup {new}
            /\ Chain(Mem', l) = Insert(Chain(Mem, l), k, new)
            /\ Elems(Mem', l) = Insert(Elems(Mem, l), k, last'.val)
            /\ size'[l] = size[l] + 1
            /\ next'[pos] = new
            /\ next'[new] = next[pos]
            /\ \A n \in live : value'[n] = value[n]
            /\ \A o \in constructed \ {l} : SameList(Mem, Mem', o)
      ]_vars

C2_Witness ==
    /\ last.op = "InsertAfter" /\ last.exc = "none"
    /\ last.pos \in Nodes
    /\ next[last.ret] # NULL
    /\ Len(Chain(Mem, last.this)) = 3

\* C3: EraseAfter(pos) with pos the sentinel or a cell that has a successor
\* destroys exactly that successor: the count drops by one, the other cells
\* keep their order and values, and the returned iterator is the cell that
\* now follows pos, nullptr when the erased cell was the last one.
C3_EraseAfterUnlinks ==
    [][Returned({"EraseAfter"}) =>
        LET l == last'.this
            pos == last'.pos
            k == IndexOf(Mem, l, pos)
            gone == next[pos]
        IN  /\ gone \in live
            /\ live' = live \ {gone}
            /\ Chain(Mem', l) = Remove(Chain(Mem, l), k + 1)
            /\ Elems(Mem', l) = Remove(Elems(Mem, l), k + 1)
            /\ size'[l] = size[l] - 1
            /\ last'.ret = next'[pos]
            /\ last'.ret = next[gone]
            /\ (last'.ret = NULL) = (k + 1 = Len(Chain(Mem, l)))
            /\ \A n \in live' : value'[n] = value[n]
            /\ \A o \in constructed \ {l} : SameList(Mem, Mem', o)
      ]_vars

C3_Witness ==
    /\ last.op = "EraseAfter" /\ last.exc = "none"
    /\ last.pos \in Nodes
    /\ last.ret # NULL
    /\ Len(Chain(Mem, last.this)) = 2

\* cell p is in the chain of some list
InAnyChain(m, p) == \E l \in m.constructed : p \in Range(Chain(m, l))

\* C4 (as stated): EraseAfter applied to the iterator that InsertAfter(p, x)
\* returned restores every list's elements and count (taken here only
\* where that iterator has a successor, so that EraseAfter's own
\* precondition holds).
C4_EraseOfReturnedRestores ==
    [][(last'.op = "EraseAfter" /\ last'.chained = "result"
          /\ next[last'.pos] # NULL) =>
        /\ last'.exc = "none"
        /\ \A l \in constructed :
             Elems(Mem', l) = Elems(pre, l) /\ size'[l] = pre.size[l]
      ]_vars

\* C4 (amended): InsertAfter(p, x) followed by EraseAfter(p), on the same
\* position p, restores the list: the same cells, elements and count as
\* before the two calls, and the inserted cell is freed again.
C4_EraseAtSamePositionRestores ==
    [][(last'.op = "EraseAfter" /\ last'.chained = "same") =>
        /\ last'.exc = "none"
        /\ live' = pre.live
        /\ \A l \in constructed : SameList(pre, Mem', l)
      ]_vars

C4_Witness ==
    /\ last.op = "EraseAfter" /\ last.chained = "same" /\ last.exc = "none"
    /\ last.pos \in Nodes
    /\ Len(Chain(Mem, last.this)) = 2

\* C5: every contract violation (a null iterator dereferenced or
\* incremented, InsertAfter or EraseAfter at a null position, EraseAfter at
\* a position without successor) ends in a failed assertion with the memory
\* untouched.
C5_ViolationsStopAtAssert ==
    [][(\/ last'.op \in {"InsertAfter", "EraseAfter", "operator++",
                         "operator++(int)", "operator*", "operator->"}
           /\ last'.pos = NULL
        \/ last'.op = "EraseAfter" /\ last'.pos # NULL
           /\ next[last'.pos] = NULL)
       => (fault' = "assert" /\ Mem' = Mem)
      ]_vars

\* C6: a call in which operator new throws leaves the whole memory as it
\* was: every list keeps its cells, elements and count, the list under
\* construction does not come to life, and the cells the call had allocated
\* are free again; the exception reaches the caller.
C6_BadAllocIsAllOrNothing ==
    [][last'.exc = "bad_alloc" =>
        /\ last'.op \in {"PushFront", "InsertAfter", "InitListCtor",
                         "CopyCtor", "CopyAssign"}
        /\ fault' = "none"
        /\ Mem' = Mem
      ]_vars

C6_Witness ==
    /\ last.op = "CopyCtor" /\ last.exc = "bad_alloc"
    /\ last.news >= 1
    /\ Len(Chain(Mem, last.other)) = 2
    /\ last.this \notin constructed

C8_SelfAssignKeepsCells ==
    [][(last'.op = "CopyAssign" /\ last'.this = last'.other) =>
        /\ SameList(Mem, Mem', last'.this)
        /\ live \subseteq live'
      ]_vars

\* C9: across PushFront, PopFront, InsertAfter, EraseAfter and swap the only
\* cell that stops existing is the one the call destroys (the old first
\* cell for PopFront, pos's old successor for EraseAfter); every other cell
\* stays allocated, in a list, with its value, and end() stays nullptr.
C9_OnlyDestroyedCellInvalid ==
    [][(last'.op \in {"PushFront", "PopFront", "InsertAfter", "EraseAfter",
                      "swap", "FreeSwap"} /\ fault' = "none") =>
        LET gone == CASE last'.op = "PopFront" /\ ~IsEmpty(Mem, last'.this)
                           -> {next[last'.this]}
                      [] last'.op = "EraseAfter" -> {next[last'.pos]}
                      [] OTHER -> {}
        IN  /\ live \ live' = gone
            /\ gone \subseteq live
            /\ \A p \in live \ gone :
                 /\ value'[p] = value[p]
                 /\ InAnyChain(Mem, p) => InAnyChain(Mem', p)
            /\ \A l \in constructed : end(Mem', l) = end(Mem, l)
      ]_vars

C9_Witness ==
    /\ last.op = "PopFront" /\ last.exc = "none"
    /\ Len(Chain(Mem, last.this)) = 2

\* C10: swap (member or free function) exchanges the two lists' chains and
\* counts and touches no cell; the same swap made twice in a row restores
\* the memory; a list swapped with itself is unchanged.
C10_SwapExchanges ==
    [][Returned({"swap", "FreeSwap"}) =>
        LET a == last'.this
            b == last'.other
        IN  /\ Chain(Mem', a) = Chain(Mem, b)
            /\ Chain(Mem', b) = Chain(Mem, a)
            /\ size'[a] = size[b]
            /\ size'[b] = size[a]
            /\ live' = live
            /\ value' = value
            /\ \A n \in Nodes : next'[n] = next[n]
            /\ \A o \in constructed \ {a, b} : SameList(Mem, Mem', o)
            /\ last'.chained = "same" => Mem' = pre
            /\ a = b => Mem' = Mem
      ]_vars

C10_Witness ==
    /\ last.op \in {"swap", "FreeSwap"} /\ last.chained = "same"
    /\ last.this # last.other
    /\ Len(Chain(Mem, last.this)) = 2
    /\ Len(Chain(Mem, last.other)) = 1

\* C11: after swap(A, B) an iterator to a cell of A refers to the same,
\* still allocated cell, which is now a cell of B (and the other way
\* round); A's before_begin() is still A's own sentinel, so incrementing an
\* iterator taken from it before the swap yields the old first cell of B.
C11_SwapMovesCellsNotSentinels ==
    [][(Returned({"swap", "FreeSwap"}) /\ last'.this # last'.other) =>
        LET a == last'.this
            b == last'.other
        IN  /\ \A n \in Range(Chain(Mem, a)) :
                 /\ n \in live' /\ value'[n] = value[n]
                 /\ n \in Range(Chain(Mem', b))
                 /\ n \notin Range(Chain(Mem', a))
            /\ \A n \in Range(Chain(Mem, b)) :
                 /\ n \in live' /\ value'[n] = value[n]
                 /\ n \in Range(Chain(Mem', a))
                 /\ n \notin Range(Chain(Mem', b))
            /\ before_begin(Mem', a) = before_begin(Mem, a)
            /\ before_begin(Mem', b) = before_begin(Mem, b)
            /\ PreIncrement(Mem', before_begin(Mem, a), NULL).it = begin(Mem, b)
            /\ PreIncrement(Mem', before_begin(Mem, b), NULL).it = begin(Mem, a)
            /\ PreIncrement(Mem', before_begin(Mem, a), NULL).exc = "none"
      ]_vars

C11_Witness ==
    /\ last.op \in {"swap", "FreeSwap"} /\ last.this # last.other
    /\ Len(Chain(Mem, last.this)) = 1
    /\ Len(Chain(Mem, last.other)) = 2
    /\ Elems(Mem, last.this) # SubSeq(Elems(Mem, last.other), 1, 1)

\* C12: PopFront on a non-empty list destroys exactly the first cell and
\* takes one off the count; on an empty list it returns with the memory
\* untouched, the count still 0, and the program does not stop.
C12_PopFrontOrNothing ==
    [][last'.op = "PopFront" =>
        LET l == last'.this
        IN  /\ last'.exc = "none" /\ fault' = "none"
            /\ IF Chain(Mem, l) = <<>>
               THEN /\ Mem' = Mem
                    /\ size'[l] = 0 /\ begin(Mem', l) = end(Mem', l)
               ELSE /\ live' = live \ {begin(Mem, l)}
                    /\ Chain(Mem', l) = Tail(Chain(Mem, l))
                    /\ Elems(Mem', l) = Tail(Elems(Mem, l))
                    /\ size'[l] = size[l] - 1
                    /\ \A n \in live' : value'[n] = value[n]
                    /\ \A o \in constructed \ {l} : SameList(Mem, Mem', o)
      ]_vars

C12_Witness ==
    /\ last.op = "PopFront" /\ last.exc = "none" /\ fault = "none"
    /\ last.this \in pre.constructed
    /\ pre.size[last.this] = 0 /\ pre.next[last.this] = NULL
    /\ size[last.this] = 0
    /\ live # {}

\* C13: PushFront(x) followed at once by PopFront() on the same list gives
\* back the memory before the two calls: every list has its old cells,
\* elements and count, and the pushed cell is free again.
C13_PushThenPopRestores ==
    [][(last'.op = "PopFront" /\ last'.chained = "same") =>
        /\ last'.exc = "none"
        /\ Mem' = pre
        /\ \A l \in constructed : SameList(pre, Mem', l)
      ]_vars

C13_Witness ==
    /\ last.op = "PopFront" /\ last.chained = "same" /\ last.exc = "none"
    /\ Chain(Mem, last.this) = <<>>
    /\ \E l \in constructed : Len(Chain(Mem, l)) = 2

\* s comes before t in lexicographic order: they agree on a prefix after
\* which s ends and t goes on, or s has the smaller element
LexLess(s, t) ==
    \E k \in 0 .. Len(s) :
        /\ k <= Len(t)
        /\ SubSeq(s, 1, k) = SubSeq(t, 1, k)
        /\ \/ k = Len(s) /\ k < Len(t)
           \/ k < Len(s) /\ k < Len(t) /\ s[k + 1] < t[k + 1]

\* same count and the same elements position by position
SameElements(m, a, b) ==
    /\ GetSize(m, a) = GetSize(m, b)
    /\ \A i \in 1 .. GetSize(m, a) :
         i <= Len(Elems(m, a)) /\ i <= Len(Elems(m, b))
           /\ Elems(m, a)[i] = Elems(m, b)[i]

\* C14: A == B is true exactly when the counts are equal and the elements
\* are equal position by position; A != B is its negation; two empty lists
\* are equal; operator== never dereferences past the end of a list.
C14_EqualityIsElementwise ==
    /\ last.op = "operator==" =>
         last.exc = "none" /\ last.res = SameElements(Mem, last.this, last.other)
    /\ last.op = "operator!=" =>
         last.exc = "none" /\ last.res = ~SameElements(Mem, last.this, last.other)
    /\ \A a, b \in constructed :
         /\ OperatorEq(Mem, a, b).exc = "none"
         /\ OperatorEq(Mem, a, b).res = SameElements(Mem, a, b)
         /\ OperatorNe(Mem, a, b).res = ~OperatorEq(Mem, a, b).res
         /\ (Chain(Mem, a) = <<>> /\ Chain(Mem, b) = <<>>)
              => OperatorEq(Mem, a, b).res

C14_Witness ==
    /\ last.op = "operator==" /\ last.this # last.other
    /\ ~last.res
    /\ Len(Elems(Mem, last.this)) = 2
    /\ Elems(Mem, last.other) = SubSeq(Elems(Mem, last.this), 1, 1)

\* C15: exactly one of A < B, B < A, A == B holds; < is the lexicographic
\* order (the empty list before any other, a proper prefix before its
\* extension); A > B is B < A, A <= B is not B < A, A >= B is not A < B.
C15_OrderIsLexicographicAndTotal ==
    /\ \A a, b \in constructed :
         LET lt == OperatorLt(Mem, a, b).res
             gt == OperatorLt(Mem, b, a).res
             eq == OperatorEq(Mem, a, b).res
         IN  /\ (lt /\ ~gt /\ ~eq) \/ (~lt /\ gt /\ ~eq) \/ (~lt /\ ~gt /\ eq)
             /\ lt = LexLess(Elems(Mem, a), Elems(Mem, b))
             /\ (Elems(Mem, a) = <<>> /\ Elems(Mem, b) # <<>>) => lt
             /\ OperatorGt(Mem, a, b).res = gt
             /\ OperatorLe(Mem, a, b).res = ~gt
             /\ OperatorGe(Mem, a, b).res = ~lt
    /\ last.op \in CmpOps =>
         LET s == Elems(Mem, last.this)
             t == Elems(Mem, last.other)
         IN  /\ last.exc = "none"
             /\ last.op = "operator<"  => last.res = LexLess(s, t)
             /\ last.op = "operator>"  => last.res = LexLess(t, s)
             /\ last.op = "operator<=" => last.res = ~LexLess(t, s)
             /\ last.op = "operator>=" => last.res = ~LexLess(s, t)

C15_Witness ==
    /\ last.op = "operator<" /\ last.res
    /\ Len(Elems(Mem, last.this)) = 1
    /\ Len(Elems(Mem, last.other)) = 2
    /\ Elems(Mem, last.this) = SubSeq(Elems(Mem, last.other), 1, 1)

\* C16: Clear() ends with every cell of the list destroyed (each cell of
\* the chain once, and no other cell), the count 0, IsEmpty() true and
\* begin() == end(); a second Clear() changes nothing; the destructor
\* frees every cell of its list and ends the list's lifetime.
C16_ClearDestroysAll ==
    [][last'.op \in {"Clear", "Dtor"} =>
        LET l == last'.this
            cells == Range(Chain(Mem, l))
        IN  /\ fault' = "none"
            /\ cells \subseteq live
            /\ Cardinality(cells) = Len(Chain(Mem, l))
            /\ live' = live \ cells
            /\ \A o \in constructed \ {l} : SameList(Mem, Mem', o)
            /\ last'.op = "Clear" =>
                 /\ size'[l] = 0 /\ IsEmpty(Mem', l)
                 /\ begin(Mem', l) = end(Mem', l)
                 /\ constructed' = constructed
                 /\ Clear(Mem', l) = Mem'
            /\ last'.op = "Dtor" => constructed' = constructed \ {l}
      ]_vars

C16_Witness ==
    /\ last.op = "Clear"
    /\ last.this \in pre.constructed
    /\ pre.size[last.this] = 2
    /\ size[last.this] = 0 /\ next[last.this] = NULL
    /\ Cardinality(live) = 1

\* C17: the constructor from an initializer list v1..vn gives a list that
\* iterates over exactly v1..vn in that order, in cells of its own, with
\* count n (begin() == end() for n = 0); the default constructor gives an
\* empty list with count 0 and a null head link.
C17_ConstructorsBuildTheSequence ==
    [][/\ Returned({"InitListCtor"}) =>
            LET l == last'.this
            IN  /\ l \in constructed'
                /\ Elems(Mem', l) = last'.values
                /\ GetSize(Mem', l) = Len(last'.values)
                /\ last'.values = <<>> => begin(Mem', l) = end(Mem', l)
                /\ Range(Chain(Mem', l)) = live' \ live
                /\ \A o \in constructed : SameList(Mem, Mem', o)
       /\ Returned({"DefaultCtor"}) =>
            LET l == last'.this
            IN  /\ l \in constructed'
                /\ GetSize(Mem', l) = 0 /\ IsEmpty(Mem', l)
                /\ next'[l] = NULL
                /\ begin(Mem', l) = end(Mem', l)
                /\ live' = live
      ]_vars

C17_Witness ==
    /\ last.op = "InitListCtor" /\ last.exc = "none"
    /\ last.values = <<2, 1>>
    /\ Elems(Mem, last.this) = <<2, 1>>
    /\ size[last.this] = 2

\* C19: when temp's destructor runs in the initializer-list constructor and
\* in the copy constructor, temp is empty with count 0, and the constructed
\* list's count is the length of its chain (size_ of the new object had a
\* defined value, 0, when swap(temp) read it).
C19_TempCountIsZeroAtDestruction ==
    (last.op \in {"InitListCtor", "CopyCtor"} /\ last.exc = "none") =>
        /\ last.tempsize = 0
        /\ GetSize(Mem, last.this) = Len(Chain(Mem, last.this))

\* C18: as long as no call has had undefined behaviour, every list's chain
\* is a finite null-terminated sequence of distinct allocated cells, every
\* allocated cell has exactly one predecessor (a sentinel or a cell) and
\* lies in the chain of exactly one list.
C18_ChainsAreLinearAndDisjoint ==
    fault # "ub" =>
        /\ \A l \in constructed :
             LET c == Chain(Mem, l)
             IN  /\ Len(c) <= MaxNodes
                 /\ \A i, j \in 1 .. Len(c) : i # j => c[i] # c[j]
                 /\ Range(c) \subseteq live
                 /\ Len(c) > 0 => next[c[Len(c)]] = NULL
        /\ \A n \in live :
             /\ Cardinality({ p \in constructed \cup live : next[p] = n }) = 1
             /\ Cardinality({ l \in constructed : n \in Range(Chain(Mem, l)) }) = 1
        /\ \A p \in Sentinels \ constructed : next[p] = NULL

C18_Witness ==
    /\ last.op = "InsertAfter" /\ last.exc = "none"
    /\ live = Nodes
    /\ constructed = Lists
    /\ \A l \in Lists : Chain(Mem, l) # <<>>

\* C20: InsertAfter(before_begin(), x) leaves the memory PushFront(x) would
\* leave, and PushFront(x) the one InsertAfter(before_begin(), x) would;
\* on a non-empty list EraseAfter(before_begin()) and PopFront() likewise
\* leave the same memory; and after every call before_begin() incremented
\* once is begin().
C20_HeadCallsAgree ==
    [][/\ (last'.op = "InsertAfter" /\ last'.pos = before_begin(Mem, last'.this)
             /\ fault' = "none") =>
            LET l == last'.this
                o == PushFront(Mem, l, last'.val,
                               IF last'.exc = "none" THEN last'.ret ELSE NULL)
            IN  /\ o.exc = last'.exc
                /\ Mem' = o.mem
                /\ Elems(Mem', l) = Elems(o.mem, l)
                /\ GetSize(Mem', l) = GetSize(o.mem, l)
       /\ (last'.op = "PushFront" /\ fault' = "none") =>
            LET l == last'.this
                o == InsertAfter(Mem, l, before_begin(Mem, l), last'.val,
                                 IF last'.exc = "none" THEN next'[l] ELSE NULL)
            IN  /\ o.exc = last'.exc
                /\ Mem' = o.mem
                /\ Elems(Mem', l) = Elems(o.mem, l)
                /\ GetSize(Mem', l) = GetSize(o.mem, l)
       /\ (last'.op = "EraseAfter" /\ last'.pos = before_begin(Mem, last'.this)
             /\ Chain(Mem, last'.this) # <<>>) =>
            LET l == last'.this
                o == PopFront(Mem, l, NULL)
            IN  /\ o.exc = "none" /\ last'.exc = "none"
                /\ Mem' = o.mem
                /\ last'.ret = begin(o.mem, l)
       /\ (last'.op = "PopFront" /\ Chain(Mem, last'.this) # <<>>) =>
            LET l == last'.this
                o == EraseAfter(Mem, l, before_begin(Mem, l), NULL)
            IN  /\ o.exc = "none" /\ last'.exc = "none"
                /\ Mem' = o.mem
       /\ fault' # "ub" =>
            \A l \in constructed' :
                /\ PreIncrement(Mem', before_begin(Mem', l), NULL).exc = "none"
                /\ PreIncrement(Mem', before_begin(Mem', l), NULL).it
                     = begin(Mem', l)
      ]_vars

C20_Witness ==
    /\ last.op = "EraseAfter" /\ last.exc = "none"
    /\ last.pos = before_begin(Mem, last.this)
    /\ last.ret = begin(Mem, last.this)
    /\ Len(Chain(Mem, last.this)) = 2
====
